---- MODULE Spec2Model ----
(***************************************************************************)
(* A model of the browser-automation test runner (src/test.py) and of its  *)
(* one-page web front end (src/web_tester.py).                             *)
(*                                                                         *)
(*   Spec     the executor: TestExecutor.execute_test_suite on an input    *)
(*            list of test cases, the browser's answers being free.        *)
(*   SpecGen  the generator: TestCaseGenerator on bounded configurations.  *)
(*   SpecWeb  the web form: concurrent POSTs to "/", each launching the    *)
(*            script, which reads webtest_url.txt.                         *)
(***************************************************************************)
EXTENDS Integers, Sequences, FiniteSets, TLC

VARIABLES
    \* ---- executor (src/test.py, class TestExecutor)
    test_cases,     \* the argument of execute_test_suite
    pc,             \* position inside execute_test_suite / execute_test
    idx,            \* number of test cases the for loop has taken
    driver,         \* self.driver: "none", "open" or "quit"
    result,         \* the TestResult under construction in execute_test
    ai,             \* actions of the current test case that returned True
    vi,             \* expectations of the current test case that verified
    exc,            \* the exception in flight inside execute_test ("" if none)
    results,        \* the local list execute_test_suite returns
    self_results,   \* self.results
    clock,          \* time.time() / datetime.now()
    start_time,     \* start_time of the current execute_test
    log,            \* calls made for the current test case, in order
    runs,           \* how often execute_test was entered, per test case
    created,        \* how often webdriver.Chrome() succeeded
    quits,          \* how often driver.quit() was called
    \* ---- generator (src/test.py, class TestCaseGenerator)
    form_config,    \* argument of generate_form_validation_tests
    pages_config,   \* argument of generate_regression_tests
    tests,          \* the list the generator returned
    gen_pc,         \* "off", or main()'s position: "start", "form", "done"
    \* ---- web front end (src/web_tester.py) and the script's main()
    url_file,       \* webtest_url.txt: whether it exists, and its characters
    report_file,    \* test_report.html: <<>> if absent, else <<its writer>>
    wpc,            \* per request: position inside index() / main()
    wurl,           \* per request: request.form["url"]
    wread,          \* per request: <<>>, or <<what f.read() gave the launched script>>
    wlink,          \* per request: report_link of the response
    posts           \* number of POSTs received so far

exec_vars == <<test_cases, pc, idx, driver, result, ai, vi, exc, results,
               self_results, clock, start_time, log, runs, created, quits>>
gen_vars  == <<form_config, pages_config, tests, gen_pc>>
web_vars  == <<url_file, report_file, wpc, wurl, wread, wlink, posts>>
vars      == <<exec_vars, gen_vars, web_vars>>

-----------------------------------------------------------------------------
(* Helpers *)

Range(s) == {s[i] : i \in DOMAIN s}

SeqUpTo(S, n) == UNION {[1..k -> S] : k \in 0..n}

RECURSIVE Flatten(_)
Flatten(ss) == IF ss = <<>> THEN <<>> ELSE Head(ss) \o Flatten(Tail(ss))

\* dict.get(key, default)
Get(d, key, default) == IF key \in DOMAIN d THEN d[key] ELSE default

-----------------------------------------------------------------------------
(* Bounds *)

MaxTests  == 2      \* longest input list of execute_test_suite
MaxFields == 2      \* longest required_fields list of a form configuration
MaxPosts  == 2      \* POSTs the web front end receives

-----------------------------------------------------------------------------
(* Data model: src/test.py lines 20-39 *)

TestCase(name, url, actions, expected_results, test_type, tags) ==
    [name |-> name, url |-> url, actions |-> actions,
     expected_results |-> expected_results, test_type |-> test_type,
     priority |-> "medium", tags |-> tags]

TestResult(test_name, status, execution_time, timestamp) ==
    [test_name |-> test_name, status |-> status,
     execution_time |-> execution_time, error_message |-> "",
     screenshot_path |-> "", timestamp |-> timestamp]

Statuses == {"PASS", "FAIL", "SKIP"}

-----------------------------------------------------------------------------
(* The generator: src/test.py lines 41-150 *)

ErrorSelector(field) == Get(field, "error_selector", "#" \o field.name \o "-error")

RequiredFieldTest(cfg, field) ==
    TestCase("test_required_field_" \o field.name, cfg.url,
             << [action |-> "clear_field", selector |-> field.selector],
                [action |-> "click", selector |-> cfg.submit_button] >>,
             << [type |-> "element_visible", selector |-> ErrorSelector(field)] >>,
             "validation", <<"form", "validation", "required">>)

\* the email test built by copying the required-field test, tags included
ValidationFieldTestsCopied(cfg, field) ==
    IF field.type = "email" THEN
        << TestCase("test_email_validation_" \o field.name, cfg.url,
             << [action |-> "input", selector |-> field.selector, value |-> "invalid-email"],
                [action |-> "click", selector |-> cfg.submit_button] >>,
             << [type |-> "element_visible", selector |-> ErrorSelector(field)] >>,
             "validation", <<"form", "validation", "required">>) >>
    ELSE <<>>

ValidationFieldTests(cfg, field) ==
    IF field.type = "email" THEN
        << TestCase("test_email_validation_" \o field.name, cfg.url,
             << [action |-> "input", selector |-> field.selector, value |-> "invalid-email"],
                [action |-> "click", selector |-> cfg.submit_button] >>,
             << [type |-> "element_visible", selector |-> ErrorSelector(field)] >>,
             "validation", <<"form", "validation", "email">>) >>
    ELSE IF field.type = "phone" THEN
        << TestCase("test_phone_validation_" \o field.name, cfg.url,
             << [action |-> "input", selector |-> field.selector, value |-> "123"],
                [action |-> "click", selector |-> cfg.submit_button] >>,
             << [type |-> "element_visible", selector |-> ErrorSelector(field)] >>,
             "validation", <<"form", "validation", "phone">>) >>
    ELSE <<>>

SuccessTest(cfg) ==
    LET all == Get(cfg, "all_fields", <<>>)
        inputs == [i \in DOMAIN all |->
                     [action |-> "input", selector |-> all[i].selector,
                      value |-> Get(all[i], "valid_value", "test")]]
    IN  TestCase("test_successful_form_submission", cfg.url,
                 Append(inputs, [action |-> "click", selector |-> cfg.submit_button]),
                 << [type |-> "url_contains", value |-> Get(cfg, "success_url", "/success")] >>,
                 "functional", <<"form", "success">>)

generate_form_validation_tests(cfg) ==
    LET req == Get(cfg, "required_fields", <<>>)
        val == Get(cfg, "validation_fields", <<>>)
    IN  [i \in DOMAIN req |-> RequiredFieldTest(cfg, req[i])]
        \o Flatten([i \in DOMAIN val |-> ValidationFieldTests(cfg, val[i])])
        \o << SuccessTest(cfg) >>

PageTests(page) ==
    << TestCase("test_page_load_" \o page.name, page.url,
                << [action |-> "wait", time |-> 2] >>,
                << [type |-> "title_contains",
                    value |-> Get(page, "expected_title", page.name)] >>,
                "regression", <<"page_load", "regression">>) >>
    \o (IF "critical_elements" \in DOMAIN page THEN
          << TestCase("test_critical_elements_" \o page.name, page.url,
                << [action |-> "wait", time |-> 1] >>,
                [i \in DOMAIN page.critical_elements |->
                    [type |-> "element_visible", selector |-> page.critical_elements[i]]],
                "regression", <<"elements", "regression">>) >>
        ELSE <<>>)

generate_regression_tests(pages) ==
    Flatten([i \in DOMAIN pages |-> PageTests(pages[i])])

-----------------------------------------------------------------------------
(* Generator inputs *)

FieldNames == {"name", "email"}

\* a field descriptor of required_fields, with or without error_selector
RequiredFieldSet ==
    {[name |-> n, selector |-> "#" \o n] : n \in FieldNames}
    \cup {[name |-> n, selector |-> "#" \o n, error_selector |-> "." \o n \o "-error"]
            : n \in FieldNames}

ValidationLists ==
    { <<>>,
      << [name |-> "email", selector |-> "#email", type |-> "email"] >>,
      << [name |-> "phone", selector |-> "#phone", type |-> "phone"] >>,
      << [name |-> "age", selector |-> "#age", type |-> "number"] >>,
      << [name |-> "email", selector |-> "#email", type |-> "email",
          error_selector |-> ".email-error"],
         [name |-> "phone", selector |-> "#phone", type |-> "phone"] >> }

AllFieldLists ==
    { <<>>,
      << [name |-> "name", selector |-> "#name"] >>,
      << [name |-> "name", selector |-> "#name", valid_value |-> "John Doe"],
         [name |-> "email", selector |-> "#email", valid_value |-> "john@example.com"] >> }

BaseForm == [url |-> "http://site", submit_button |-> "button[type='submit']"]

FormConfigs ==
    {BaseForm}
    \cup {BaseForm @@ [required_fields |-> r, validation_fields |-> v, all_fields |-> a]
            : r \in SeqUpTo(RequiredFieldSet, MaxFields), v \in ValidationLists,
              a \in AllFieldLists}

PagesConfigs ==
    { <<>>,
      << [name |-> "home", url |-> "http://site"] >>,
      << [name |-> "user-page", url |-> "http://site", expected_title |-> "",
          critical_elements |-> <<>>] >>,
      << [name |-> "home", url |-> "http://site", critical_elements |-> <<"#nav", "#main">>],
         [name |-> "about", url |-> "http://site/about", expected_title |-> "About"] >> }

-----------------------------------------------------------------------------
(* The executor's steps on the browser: src/test.py lines 187-262.         *)
(* Each returns [ret, raised, browser]: the value returned, whether an     *)
(* exception leaves the function, and whether the browser was touched.     *)
(* `out` is the browser's answer to the delegated call.                    *)

ActionOutcomes == {"ok", "raise"}
QueryOutcomes  == {"true", "false", "nosuch", "raise"}

\* the body of execute_action's try block: [raises, browser]
ActionBody(action, out) ==
    IF "action" \notin DOMAIN action THEN [raises |-> TRUE, browser |-> FALSE]  \* KeyError
    ELSE IF action.action = "input" THEN
        [raises |-> (out = "raise" \/ "selector" \notin DOMAIN action
                                   \/ "value" \notin DOMAIN action),
         browser |-> "selector" \in DOMAIN action]
    ELSE IF action.action \in {"click", "clear_field"} THEN
        [raises |-> (out = "raise" \/ "selector" \notin DOMAIN action),
         browser |-> "selector" \in DOMAIN action]
    ELSE IF action.action = "wait" THEN
        [raises |-> Get(action, "time", 1) < 0, browser |-> FALSE]    \* time.sleep: ValueError
    ELSE [raises |-> FALSE, browser |-> FALSE]

\* execute_action without its try/except: the exception leaves it
execute_action_unguarded(action, out) ==
    LET b == ActionBody(action, out)
    IN  [ret |-> ~b.raises, raised |-> b.raises, browser |-> b.browser]

\* execute_action ending in `else: return False`
execute_action_strict(action, out) ==
    LET b == ActionBody(action, out)
    IN  [ret |-> (~b.raises /\ ~("action" \in DOMAIN action
                                  /\ action.action \notin {"input", "click",
                                                           "clear_field", "wait"})),
         raised |-> FALSE, browser |-> b.browser]

execute_action(action, out) ==
    LET b == ActionBody(action, out)
    IN  [ret |-> ~b.raises, raised |-> FALSE, browser |-> b.browser]

\* `needle in haystack`: the empty string is in every string
Contains(value, out) == value = "" \/ out = "true"

\* the body of verify_result's try block: [raises, ret]
VerifyBody(expected, out) ==
    IF "type" \notin DOMAIN expected THEN [raises |-> TRUE, ret |-> FALSE]
    ELSE IF expected.type = "element_visible" THEN
        [raises |-> (out # "true" \/ "selector" \notin DOMAIN expected), ret |-> TRUE]
    ELSE IF expected.type = "element_not_visible" THEN
        IF "selector" \notin DOMAIN expected \/ out = "raise"
        THEN [raises |-> TRUE, ret |-> FALSE]
        ELSE [raises |-> FALSE, ret |-> (out = "nosuch" \/ out = "false")]
    ELSE IF expected.type \in {"url_contains", "title_contains"} THEN
        IF "value" \notin DOMAIN expected \/ out = "raise"
        THEN [raises |-> TRUE, ret |-> FALSE]
        ELSE [raises |-> FALSE, ret |-> Contains(expected.value, out)]
    ELSE IF expected.type = "text_contains" THEN
        IF "selector" \notin DOMAIN expected \/ "value" \notin DOMAIN expected
           \/ out \in {"raise", "nosuch"}
        THEN [raises |-> TRUE, ret |-> FALSE]
        ELSE [raises |-> FALSE, ret |-> Contains(expected.value, out)]
    ELSE [raises |-> FALSE, ret |-> FALSE]

verify_result(expected, out) ==
    LET b == VerifyBody(expected, out)
    IN  [ret |-> (~b.raises /\ b.ret), raised |-> FALSE]

\* take_screenshot without its try/except
take_screenshot_unguarded(test_name, now, out) ==
    [ret |-> IF out = "ok"
             THEN "screenshots/" \o test_name \o "_" \o ToString(now) \o ".png"
             ELSE "",
     raised |-> (out # "ok")]

take_screenshot(test_name, now, out) ==
    [ret |-> IF out = "ok"
             THEN "screenshots/" \o test_name \o "_" \o ToString(now) \o ".png"
             ELSE "",
     raised |-> FALSE]

ActionFailedMsg(action)   == "Action failed: " \o ToString(action)
VerifyFailedMsg(expected) == "Verification failed: " \o ToString(expected)

-----------------------------------------------------------------------------
(* Executor inputs: the generator's output for a small form and two pages, *)
(* and hand-written test cases for what the generator never emits.         *)

SampleForm ==
    BaseForm @@ [required_fields |-> << [name |-> "name", selector |-> "#name"] >>,
                 all_fields |-> << [name |-> "name", selector |-> "#name"] >>]

SamplePages ==
    << [name |-> "user-page", url |-> "http://site", expected_title |-> "",
        critical_elements |-> <<>>] >>

ExtraTestCases ==
    { TestCase("t_empty", "http://site", <<>>, <<>>, "functional", <<>>),
      TestCase("t_unknown", "http://site",
               << [action |-> "hover", selector |-> "#menu"],
                  [action |-> "click", selector |-> "#go"] >>,
               << [type |-> "element_not_visible", selector |-> "#spinner"],
                  [type |-> "status_is", value |-> "200"] >>,
               "functional", <<>>),
      TestCase("t_text", "http://site",
               << [action |-> "input", selector |-> "#q", value |-> "x"],
                  [action |-> "wait"] >>,
               << [type |-> "text_contains", selector |-> "h1", value |-> "Hi"],
                  [value |-> "x"] >>,
               "functional", <<>>),
      TestCase("t_scroll", "http://site",
               << [action |-> "scroll"] >>,
               << [type |-> "title_contains", value |-> "Home"] >>,
               "functional", <<>>),
      TestCase("t_nokey", "http://site",
               << [selector |-> "#q"] >>, <<>>, "functional", <<>>),
      TestCase("t_sleep", "http://site",
               << [action |-> "wait", time |-> -1] >>, <<>>, "functional", <<>>) }

TestCaseSet ==
    Range(generate_form_validation_tests(SampleForm))
    \cup Range(generate_regression_tests(SamplePages))
    \cup ExtraTestCases

-----------------------------------------------------------------------------
(* The executor: src/test.py lines 264-325 *)

NoResult == TestResult("", "", 0, 0)

\* a result constructed as passed
InitialStatusPass == "PASS"

\* line 269: the status a result is constructed with
InitialStatus == "FAIL"

\* a status outside the documented ones
PassStatusTypo == "PASSED"

\* line 294: the status of a test case whose loops both ran to their end
PassStatus == "PASS"

\* a loop that runs a failed test case a second time
NextTestRetry ==
    IF idx > 0 /\ result.status = "FAIL" /\ runs[idx] < 2 THEN idx ELSE idx + 1

\* line 313: the for loop takes each test case once, in order
NextTest == idx + 1

\* a finally clause that also stamps the result anew
FinalizeStamped(r, now, start) ==
    [r EXCEPT !.execution_time = now - start, !.timestamp = now]

\* line 303: the finally clause of execute_test
Finalize(r, now, start) == [r EXCEPT !.execution_time = now - start]

\* results.insert(0, result)
CollectFront(rs, r) == <<r>> \o rs

\* lines 315-316: results.append(result)
Collect(rs, r) == Append(rs, r)

Event(op, i, ret, browser) == [op |-> op, i |-> i, ret |-> ret, browser |-> browser]

InitGen ==
    /\ form_config = BaseForm
    /\ pages_config = <<>>
    /\ tests = <<>>
    /\ gen_pc = "off"

NoFile == [exists |-> FALSE, content |-> <<>>]

InitWeb ==
    /\ url_file = NoFile
    /\ report_file = <<>>
    /\ wpc = <<>>
    /\ wurl = <<>>
    /\ wread = <<>>
    /\ wlink = <<>>
    /\ posts = 0

InitExec(cases) ==
    /\ test_cases = cases
    /\ pc = "setup"
    /\ idx = 0
    /\ driver = "none"
    /\ result = NoResult
    /\ ai = 0
    /\ vi = 0
    /\ exc = ""
    /\ results = <<>>
    /\ self_results = <<>>
    /\ clock = 0
    /\ start_time = 0
    /\ log = <<>>
    /\ runs = [i \in DOMAIN cases |-> 0]
    /\ created = 0
    /\ quits = 0

Init ==
    /\ \E cases \in SeqUpTo(TestCaseSet, MaxTests) : InitExec(cases)
    /\ InitGen
    /\ InitWeb

\* the finally clause of execute_test_suite (lines 321-323)
QuitDriver == IF driver = "open" THEN "quit" ELSE driver
QuitCount  == IF driver = "open" THEN quits + 1 ELSE quits

\* setup_driver, lines 174-185, makes two delegated calls: webdriver.Chrome()
\* (line 183), which assigns self.driver when it succeeds, and
\* self.driver.implicitly_wait() (line 184), a command to the new browser.
\* Each may raise.
SetupOutcomes == {"ok", "chrome_raises", "wait_raises"}

\* line 309: setup_driver() is called before the try statement of
\* execute_test_suite, so an exception it raises leaves execute_test_suite
\* without passing through the finally clause
SetupDriver ==
    /\ UNCHANGED <<gen_vars, web_vars>>
    /\ pc = "setup"
    /\ \E out \in SetupOutcomes :
         /\ IF out = "chrome_raises"
            THEN UNCHANGED <<driver, created>>
            ELSE driver' = "open" /\ created' = created + 1
         /\ IF out = "ok"
            THEN pc' = "loop" /\ exc' = exc
            ELSE pc' = "raised" /\ exc' = "setup_driver"
    /\ UNCHANGED <<test_cases, idx, result, ai, vi, results, self_results, clock,
                   start_time, log, runs, quits>>

\* lines 313-314 and 266-275: the loop takes the next test case and
\* execute_test constructs its result
BeginTest ==
    /\ UNCHANGED <<gen_vars, web_vars>>
    /\ pc = "loop"
    /\ idx < Len(test_cases)
    /\ idx' = NextTest
    /\ result' = TestResult(test_cases[idx'].name, InitialStatus, 0, clock)
    /\ start_time' = clock
    /\ ai' = 0
    /\ vi' = 0
    /\ log' = <<>>
    /\ runs' = [runs EXCEPT ![idx'] = @ + 1]
    /\ pc' = "navigate"
    /\ UNCHANGED <<test_cases, driver, exc, results, self_results, clock, created, quits>>

\* line 278: self.driver.get(test_case.url)
Navigate ==
    /\ UNCHANGED <<gen_vars, web_vars>>
    /\ pc = "navigate"
    /\ \E out \in ActionOutcomes :
         /\ log' = Append(log, Event("get", 0, out = "ok", TRUE))
         /\ IF out = "ok"
            THEN pc' = "run" /\ exc' = exc
            ELSE pc' = "except" /\ exc' = "WebDriverException"
    /\ clock' = clock + 1
    /\ UNCHANGED <<test_cases, idx, driver, result, ai, vi, results, self_results,
                   start_time, runs, created, quits>>

\* lines 281-285: one iteration of the action loop
ExecuteAction ==
    /\ UNCHANGED <<gen_vars, web_vars>>
    /\ pc = "run"
    /\ ai < Len(test_cases[idx].actions)
    /\ \E out \in ActionOutcomes :
         LET action == test_cases[idx].actions[ai + 1]
             r == execute_action(action, out)
         IN  /\ log' = Append(log, Event("action", ai + 1, r.ret /\ ~r.raised, r.browser))
             /\ IF r.raised
                THEN /\ pc' = "except"
                     /\ exc' = "Exception"
                     /\ UNCHANGED <<ai, result>>
                ELSE IF r.ret
                THEN /\ ai' = ai + 1
                     /\ UNCHANGED <<pc, exc, result>>
                ELSE /\ result' = [result EXCEPT !.error_message = ActionFailedMsg(action)]
                     /\ pc' = "screenshot"
                     /\ UNCHANGED <<ai, exc>>
    /\ clock' = clock + 1
    /\ UNCHANGED <<test_cases, idx, driver, vi, results, self_results, start_time,
                   runs, created, quits>>

\* lines 288-292: one iteration of the verification loop
VerifyResult ==
    /\ UNCHANGED <<gen_vars, web_vars>>
    /\ pc = "run"
    /\ ai = Len(test_cases[idx].actions)
    /\ vi < Len(test_cases[idx].expected_results)
    /\ \E out \in QueryOutcomes :
         LET expected == test_cases[idx].expected_results[vi + 1]
             r == verify_result(expected, out)
         IN  /\ log' = Append(log, Event("verify", vi + 1, r.ret /\ ~r.raised, TRUE))
             /\ IF r.raised
                THEN /\ pc' = "except"
                     /\ exc' = "Exception"
                     /\ UNCHANGED <<vi, result>>
                ELSE IF r.ret
                THEN /\ vi' = vi + 1
                     /\ UNCHANGED <<pc, exc, result>>
                ELSE /\ result' = [result EXCEPT !.error_message = VerifyFailedMsg(expected)]
                     /\ pc' = "screenshot"
                     /\ UNCHANGED <<vi, exc>>
    /\ clock' = clock + 1
    /\ UNCHANGED <<test_cases, idx, driver, ai, results, self_results, start_time,
                   runs, created, quits>>

\* lines 284-285 and 291-292: the screenshot of a failed step, then return
\* (through the finally clause)
TakeScreenshot ==
    /\ UNCHANGED <<gen_vars, web_vars>>
    /\ pc = "screenshot"
    /\ \E out \in ActionOutcomes :
         LET r == take_screenshot(test_cases[idx].name, clock, out)
         IN  /\ log' = Append(log, Event("screenshot", 0, r.ret # "" /\ ~r.raised, TRUE))
             /\ IF r.raised
                THEN /\ pc' = "except"
                     /\ exc' = "Exception"
                     /\ result' = result
                ELSE /\ result' = [result EXCEPT !.screenshot_path = r.ret]
                     /\ pc' = "finally"
                     /\ exc' = exc
    /\ clock' = clock + 1
    /\ UNCHANGED <<test_cases, idx, driver, ai, vi, results, self_results, start_time,
                   runs, created, quits>>

\* lines 294-295: both loops are over
Pass ==
    /\ UNCHANGED <<gen_vars, web_vars>>
    /\ pc = "run"
    /\ ai = Len(test_cases[idx].actions)
    /\ vi = Len(test_cases[idx].expected_results)
    /\ result' = [result EXCEPT !.status = PassStatus]
    /\ pc' = "finally"
    /\ UNCHANGED <<test_cases, idx, driver, ai, vi, exc, results, self_results, clock,
                   start_time, log, runs, created, quits>>

\* lines 297-300: the except clause of execute_test; an exception raised
\* inside it leaves execute_test (after the finally clause)
HandleException ==
    /\ UNCHANGED <<gen_vars, web_vars>>
    /\ pc = "except"
    /\ \E out \in ActionOutcomes :
         LET r == take_screenshot(test_cases[idx].name, clock, out)
         IN  /\ log' = Append(log, Event("screenshot", 0, r.ret # "" /\ ~r.raised, TRUE))
             /\ IF r.raised
                THEN /\ result' = [result EXCEPT !.error_message = exc]
                     /\ exc' = "execute_test"
                ELSE /\ result' = [result EXCEPT !.error_message = exc,
                                                 !.screenshot_path = r.ret]
                     /\ exc' = ""
    /\ pc' = "finally"
    /\ clock' = clock + 1
    /\ UNCHANGED <<test_cases, idx, driver, ai, vi, results, self_results, start_time,
                   runs, created, quits>>

\* lines 302-305 and 315-319: the finally clause of execute_test, its
\* return, the two appends and the delay; or, with an exception in flight,
\* the finally clause of execute_test_suite
ReturnResult ==
    /\ UNCHANGED <<gen_vars, web_vars>>
    /\ pc = "finally"
    /\ result' = Finalize(result, clock, start_time)
    /\ IF exc = ""
       THEN /\ results' = Collect(results, result')
            /\ self_results' = Collect(self_results, result')
            /\ clock' = clock + 1
            /\ pc' = "loop"
            /\ UNCHANGED <<driver, quits>>
       ELSE /\ driver' = QuitDriver
            /\ quits' = QuitCount
            /\ pc' = "raised"
            /\ UNCHANGED <<results, self_results, clock>>
    /\ UNCHANGED <<test_cases, idx, ai, vi, exc, start_time, log, runs, created>>

\* lines 321-325: the loop is over, the driver is quit, results returned
Finish ==
    /\ UNCHANGED <<gen_vars, web_vars>>
    /\ pc = "loop"
    /\ idx = Len(test_cases)
    /\ driver' = QuitDriver
    /\ quits' = QuitCount
    /\ pc' = "done"
    /\ UNCHANGED <<test_cases, idx, result, ai, vi, exc, results, self_results, clock,
                   start_time, log, runs, created>>

Next ==
    \/ SetupDriver
    \/ BeginTest
    \/ Navigate
    \/ ExecuteAction
    \/ VerifyResult
    \/ TakeScreenshot
    \/ Pass
    \/ HandleException
    \/ ReturnResult
    \/ Finish

Spec == Init /\ [][Next]_vars

-----------------------------------------------------------------------------
(* The generator as main() calls it: src/test.py lines 496-502.  With      *)
(* --test-type all both generators run, with form or regression only one.  *)

InitGenSpec ==
    /\ InitExec(<<>>)
    /\ InitWeb
    /\ form_config \in FormConfigs
    /\ pages_config \in PagesConfigs
    /\ tests = <<>>
    /\ gen_pc = "start"

\* lines 499-500: all_tests += generate_form_validation_tests(form_config)
GenerateForm ==
    /\ gen_pc = "start"
    /\ tests' = tests \o generate_form_validation_tests(form_config)
    /\ gen_pc' = "form"
    /\ UNCHANGED <<form_config, pages_config, exec_vars, web_vars>>

\* lines 501-502: all_tests += generate_regression_tests(pages_config)
GenerateRegression ==
    /\ gen_pc \in {"start", "form"}
    /\ tests' = tests \o generate_regression_tests(pages_config)
    /\ gen_pc' = "done"
    /\ UNCHANGED <<form_config, pages_config, exec_vars, web_vars>>

NextGen == GenerateForm \/ GenerateRegression

SpecGen == InitGenSpec /\ [][NextGen]_vars

-----------------------------------------------------------------------------
(* The web front end: src/web_tester.py lines 41-54, and the part of the   *)
(* script's main() it meets: src/test.py lines 456-465 and 512-520.        *)
(* app.run() serves each request in a thread of its own, so the steps of   *)
(* several POSTs interleave.  A URL is a sequence of characters.           *)

Urls == { <<"a">>, <<"b", "b">>, <<" ">>, <<"a", " ">>, <<>> }

Whitespace == {" "}

\* str.strip()
RECURSIVE LStrip(_)
LStrip(str) == IF str # <<>> /\ Head(str) \in Whitespace THEN LStrip(Tail(str)) ELSE str

RECURSIVE RStrip(_)
RStrip(str) ==
    IF str # <<>> /\ str[Len(str)] \in Whitespace
    THEN RStrip(SubSeq(str, 1, Len(str) - 1))
    ELSE str

Strip(str) == RStrip(LStrip(str))

\* f.write(url) on a file opened with "w": the characters go to the start
\* of the file, whatever another writer left beyond them stays
WriteAtStart(content, url) == url \o SubSeq(content, Len(url) + 1, Len(content))

Requests == 1..posts

InitWebSpec ==
    /\ InitExec(<<>>)
    /\ InitGen
    /\ InitWeb

\* web_tester.py lines 44-46: a POST arrives
Post ==
    /\ posts < MaxPosts
    /\ \E url \in Urls :
         /\ posts' = posts + 1
         /\ wpc' = Append(wpc, "open")
         /\ wurl' = Append(wurl, url)
         /\ wread' = Append(wread, <<>>)
         /\ wlink' = Append(wlink, FALSE)
    /\ UNCHANGED <<url_file, report_file, exec_vars, gen_vars>>

\* line 47: open("webtest_url.txt", "w") creates or truncates the file
OpenUrlFile(r) ==
    /\ wpc[r] = "open"
    /\ url_file' = [exists |-> TRUE, content |-> <<>>]
    /\ wpc' = [wpc EXCEPT ![r] = "write"]
    /\ UNCHANGED <<report_file, wurl, wread, wlink, posts, exec_vars, gen_vars>>

\* line 48 and the end of the with block: the buffered write reaches the file
WriteUrlFile(r) ==
    /\ wpc[r] = "write"
    /\ url_file' = [exists |-> TRUE, content |-> WriteAtStart(url_file.content, wurl[r])]
    /\ wpc' = [wpc EXCEPT ![r] = "launch"]
    /\ UNCHANGED <<report_file, wurl, wread, wlink, posts, exec_vars, gen_vars>>

\* lines 49-50: subprocess.run starts the script, or raises when the
\* interpreter myenv/Scripts/python.exe is not there (the request then
\* ends in an error response, without a report link)
LaunchScript(r) ==
    /\ wpc[r] = "launch"
    /\ \E out \in ActionOutcomes :
         wpc' = [wpc EXCEPT ![r] = IF out = "ok" THEN "script" ELSE "error"]
    /\ UNCHANGED <<url_file, report_file, wurl, wread, wlink, posts, exec_vars, gen_vars>>

\* test.py lines 456-465: main() reads the URL file
ScriptReadUrl(r) ==
    /\ wpc[r] = "script"
    /\ IF ~url_file.exists
       THEN /\ wpc' = [wpc EXCEPT ![r] = "exited"]
            /\ wread' = wread
       ELSE /\ wread' = [wread EXCEPT ![r] = <<url_file.content>>]
            /\ wpc' = [wpc EXCEPT ![r] =
                          IF Strip(url_file.content) = <<>> THEN "exited" ELSE "testing"]
    /\ UNCHANGED <<url_file, report_file, wurl, wlink, posts, exec_vars, gen_vars>>

\* test.py lines 512-520: the suite runs and the report is written, unless
\* the script dies first (setup_driver raising leaves execute_test_suite)
ScriptRunTests(r) ==
    /\ wpc[r] = "testing"
    /\ \E out \in ActionOutcomes :
         report_file' = IF out = "ok"
                        THEN << [by |-> r, url |-> Strip(wread[r][1])] >>
                        ELSE report_file
    /\ wpc' = [wpc EXCEPT ![r] = "exited"]
    /\ UNCHANGED <<url_file, wurl, wread, wlink, posts, exec_vars, gen_vars>>

\* web_tester.py lines 51-54: the script is over; the response carries the
\* report link if test_report.html exists
Respond(r) ==
    /\ wpc[r] = "exited"
    /\ wlink' = [wlink EXCEPT ![r] = (report_file # <<>>)]
    /\ wpc' = [wpc EXCEPT ![r] = "responded"]
    /\ UNCHANGED <<url_file, report_file, wurl, wread, posts, exec_vars, gen_vars>>

NextWeb ==
    \/ Post
    \/ \E r \in Requests : OpenUrlFile(r)
    \/ \E r \in Requests : WriteUrlFile(r)
    \/ \E r \in Requests : LaunchScript(r)
    \/ \E r \in Requests : ScriptReadUrl(r)
    \/ \E r \in Requests : ScriptRunTests(r)
    \/ \E r \in Requests : Respond(r)

SpecWeb == InitWebSpec /\ [][NextWeb]_vars

-----------------------------------------------------------------------------
(* Properties of the executor *)

\* the current test case and the positions at which `result` is its record
Current == test_cases[idx]
InTest == pc \in {"navigate", "run", "screenshot", "except", "finally"}
\* execute_test has left its try statement (the result is final but for
\* execution_time) or has returned
Settled == idx > 0 /\ pc \in {"finally", "loop", "done"}

EventsOf(op) == {k \in DOMAIN log : log[k].op = op}
Failed(k) == log[k].op \in {"get", "action", "verify"} /\ ~log[k].ret

\* C1: execute_test_suite returns one result per test case, in input order:
\* the returned list is as long as test_cases and its i-th result carries
\* the name of the i-th test case, whatever the browser answered.
C1_OneResultPerTestInOrder ==
    /\ Len(results) <= Len(test_cases)
    /\ \A i \in DOMAIN results : results[i].test_name = test_cases[i].name
    /\ pc = "done" => Len(results) = Len(test_cases)

C1_Witness ==
    /\ pc = "done"
    /\ Len(results) = 2
    /\ test_cases[1].name # test_cases[2].name
    /\ results[1].error_message = "WebDriverException"
    /\ results[2].status = "PASS"

\* C2: every result the executor produces or holds (the one under
\* construction, the returned list, self.results) has a status among
\* PASS, FAIL and SKIP.
C2_StatusInDomain ==
    /\ InTest => result.status \in Statuses
    /\ \A i \in DOMAIN results : results[i].status \in Statuses
    /\ \A i \in DOMAIN self_results : self_results[i].status \in Statuses

C2_Witness ==
    /\ pc = "done"
    /\ Len(self_results) = 2
    /\ self_results[1].status = "PASS"
    /\ self_results[2].status = "FAIL"

\* the steps that keep working on the record `result` holds
SameRecord == idx > 0 /\ idx' = idx

\* no field of a TestCase changes, and a result already collected changes
\* no more
InputsAndCollectedFrozen ==
    /\ test_cases' = test_cases
    /\ \A i \in DOMAIN results : results'[i] = results[i]
    /\ \A i \in DOMAIN self_results : self_results'[i] = self_results[i]

\* C3 as stated: records are never mutated after creation except the
\* result's status and execution_time; test_name, error_message,
\* screenshot_path and timestamp stay as constructed.
C3_OnlyStatusAndDurationChange ==
    [][/\ InputsAndCollectedFrozen
       /\ SameRecord =>
            /\ result'.test_name = result.test_name
            /\ result'.timestamp = result.timestamp
            /\ result'.error_message = result.error_message
            /\ result'.screenshot_path = result.screenshot_path]_vars

\* C3 amended: no field of a TestCase changes, and of a TestResult's fields
\* only status, execution_time, error_message and screenshot_path differ
\* from the values given at construction (the last two are filled in when
\* the test fails); test_name and timestamp stay as constructed.
C3_OnlyOutcomeFieldsChange ==
    [][/\ InputsAndCollectedFrozen
       /\ SameRecord =>
            /\ result'.test_name = result.test_name
            /\ result'.timestamp = result.timestamp
            /\ (result'.error_message # result.error_message
                  \/ result'.screenshot_path # result.screenshot_path)
               => result'.status = "FAIL"]_vars

C3_Witness ==
    /\ pc = "done"
    /\ Len(results) = 2
    /\ results[1].error_message # ""
    /\ results[1].screenshot_path # ""
    /\ results[1].execution_time > 0
    /\ results[2].status = "PASS"
    /\ results[2].timestamp > 0

\* C4: no retry: within one execute_test each action is attempted at most
\* once (exactly once when the test passes), nothing is attempted after a
\* failed action, and execute_test_suite executes each test case at most
\* once (exactly once when it returns), failed or not.
C4_NoRetry ==
    /\ \A j, k \in EventsOf("action") : log[j].i = log[k].i => j = k
    /\ \A j \in EventsOf("action") : ~log[j].ret =>
          \A k \in DOMAIN log : k > j => log[k].op = "screenshot"
    /\ (Settled /\ result.status = "PASS") =>
          \A i \in DOMAIN Current.actions : \E k \in EventsOf("action") : log[k].i = i
    /\ \A i \in DOMAIN runs : runs[i] <= 1
    /\ pc = "done" => \A i \in DOMAIN runs : runs[i] = 1

C4_Witness ==
    /\ pc = "done"
    /\ Len(results) = 2
    /\ results[1].status = "FAIL"
    /\ \E k \in EventsOf("action") : ~log[k].ret /\ log[k].i = 2

\* C6: every failure of a delegated browser call is contained: an exception
\* in an action or an expectation becomes a False outcome of that step
\* (only navigation reaches the except clause of execute_test), a test case
\* with a failed step gets status FAIL, no exception leaves execute_test
\* (the only exception leaving execute_test_suite is setup_driver's), and
\* the remaining test cases still run.
C6_FailuresContained ==
    /\ pc = "raised" => (exc = "setup_driver" /\ idx = 0)
    /\ pc = "except" => (exc = "WebDriverException" /\ log[Len(log)].op = "get")
    /\ (Settled /\ \E k \in DOMAIN log : Failed(k)) => result.status = "FAIL"
    /\ pc = "done" => /\ Len(results) = Len(test_cases)
                      /\ \A i \in DOMAIN runs : runs[i] = 1

C6_Witness ==
    /\ pc = "done"
    /\ Len(results) = 2
    /\ results[1].error_message = "WebDriverException"
    /\ results[1].screenshot_path = ""
    /\ results[1].status = "FAIL"
    /\ \E k \in EventsOf("action") : ~log[k].ret /\ log[k].browser
    /\ \E k \in EventsOf("screenshot") : ~log[k].ret

\* what the log says of the current test case
NavigationOk == \E k \in EventsOf("get") : log[k].ret
ActionOk(i) == \E k \in EventsOf("action") : log[k].i = i /\ log[k].ret
VerifiedOk(i) == \E k \in EventsOf("verify") : log[k].i = i /\ log[k].ret

\* C8: execute_test returns PASS if and only if navigation raised nothing,
\* every action returned success and every expectation verified true (so a
\* test case without expectations passes whenever navigation and all
\* actions succeed); a PASS result has empty error_message and
\* screenshot_path.
C8_PassIffAllSucceeded ==
    Settled =>
        /\ result.status = "PASS" <=>
              /\ NavigationOk
              /\ \A i \in DOMAIN Current.actions : ActionOk(i)
              /\ \A i \in DOMAIN Current.expected_results : VerifiedOk(i)
        /\ result.status = "PASS" =>
              (result.error_message = "" /\ result.screenshot_path = "")

C8_Witness ==
    /\ pc = "loop"
    /\ idx = 2
    /\ Current.expected_results = <<>>
    /\ Current.actions # <<>>
    /\ results[2].status = "PASS"
    /\ results[1].status = "FAIL"
    /\ Len(test_cases[1].expected_results) = 2

ScreenshotCount == Cardinality(EventsOf("screenshot"))

\* C9: a test case executes strictly in sequence and stops at the first
\* failure: navigation comes first, actions run in list order, no
\* expectation is verified before all actions have succeeded, nothing but
\* the screenshot follows a failed step, error_message names exactly the
\* failed action or expectation, and a failed test gets exactly one
\* screenshot attempt (a passed one none).
C9_SequentialStopAtFirstFailure ==
    /\ \A k \in DOMAIN log : log[k].op = "get" <=> k = 1
    /\ \A k \in EventsOf("action") : log[k].i = k - 1
    /\ \A k \in EventsOf("verify") :
          /\ \A i \in DOMAIN Current.actions : \E j \in 1..(k - 1) :
                log[j].op = "action" /\ log[j].i = i /\ log[j].ret
          /\ log[k].i = k - 1 - Len(Current.actions)
    /\ \A k \in DOMAIN log : Failed(k) =>
          /\ \A j \in DOMAIN log : j > k => (log[j].op = "screenshot" /\ j = k + 1)
          /\ (Settled /\ log[k].op = "action") =>
                result.error_message = ActionFailedMsg(Current.actions[log[k].i])
          /\ (Settled /\ log[k].op = "verify") =>
                result.error_message = VerifyFailedMsg(Current.expected_results[log[k].i])
    /\ Settled => ScreenshotCount = (IF result.status = "FAIL" THEN 1 ELSE 0)

C9_Witness ==
    /\ pc = "finally"
    /\ Len(Current.actions) = 2
    /\ \E k \in EventsOf("verify") : log[k].i = 2 /\ ~log[k].ret
    /\ ScreenshotCount = 1
    /\ result.error_message = VerifyFailedMsg(Current.expected_results[2])

PrimitiveActions == {"input", "click", "clear_field", "wait"}
KnownExpectations == {"element_visible", "element_not_visible", "url_contains",
                      "title_contains", "text_contains"}
UnknownAction(a) == "action" \in DOMAIN a /\ a.action \notin PrimitiveActions
UnknownExpectation(e) == "type" \in DOMAIN e /\ e.type \notin KnownExpectations

\* C10: execute_action touches the browser only for the primitive actions
\* input, click, clear_field and wait; for an action name outside this set
\* it touches nothing and reports success, so the test is not failed by it
\* (it goes on, and its error_message never names that action);
\* verify_result reports failure for an expectation type outside its known
\* set.
C10_UnknownActionPassesUnknownTypeFails ==
    /\ \A k \in EventsOf("action") :
          LET a == Current.actions[log[k].i]
          IN  /\ log[k].browser => ("action" \in DOMAIN a /\ a.action \in PrimitiveActions)
              /\ UnknownAction(a) =>
                    /\ log[k].ret
                    /\ ~log[k].browser
                    /\ result.error_message # ActionFailedMsg(a)
    /\ \A k \in EventsOf("verify") :
          LET e == Current.expected_results[log[k].i]
          IN  UnknownExpectation(e) =>
                 (~log[k].ret /\ (Settled => result.status = "FAIL"))

C10_Witness ==
    /\ pc = "finally"
    /\ \E k \in EventsOf("action") :
          /\ UnknownAction(Current.actions[log[k].i])
          /\ \E j \in EventsOf("action") : j > k /\ log[j].browser
    /\ \E k \in EventsOf("verify") : UnknownExpectation(Current.expected_results[log[k].i])

\* execute_test_suite is over: it returned, or an exception left it
SuiteEnded == pc \in {"done", "raised"}

\* the driver is created at most once, and before the first test case runs
CreatedOnceBeforeFirstTest ==
    /\ created <= 1
    /\ idx > 0 => created = 1

\* no test case is executed before the driver is created or after it is quit
TestsOnlyWhileOpen == InTest => (driver = "open" /\ quits = 0)

\* the driver is not quit while the suite runs, and a driver that was
\* created has been quit exactly once when the suite is over
QuitOnceAtEnd ==
    /\ quits <= 1
    /\ ~SuiteEnded => quits = 0
    /\ (SuiteEnded /\ created > 0) => (quits = 1 /\ driver = "quit")

\* C11: the driver is created exactly once before the first test case
\* runs, no test case is executed before it is created or after it is quit,
\* and whenever the driver was created it is quit exactly once when the
\* suite ends, whether the loop finished normally or was left by an
\* exception.
C11_DriverLifecycle ==
    /\ CreatedOnceBeforeFirstTest
    /\ TestsOnlyWhileOpen
    /\ QuitOnceAtEnd

-----------------------------------------------------------------------------
(* Properties of the generator *)

TaggedRequired(t) == "required" \in Range(t.tags)
RequiredFields == Get(form_config, "required_fields", <<>>)

\* C5: generate_form_validation_tests yields, for n required_fields,
\* exactly n test cases tagged 'required' (so exactly one for one required
\* field), one per field in input order, each named
\* test_required_field_<name> with the actions clear_field on the field's
\* selector, then click on the submit button.
C5_OneRequiredTestPerField ==
    gen_pc = "form" =>
        LET req == SelectSeq(tests, TaggedRequired)
        IN  /\ Len(req) = Len(RequiredFields)
            /\ \A i \in DOMAIN req :
                  /\ req[i].name = "test_required_field_" \o RequiredFields[i].name
                  /\ req[i].actions =
                        << [action |-> "clear_field", selector |-> RequiredFields[i].selector],
                           [action |-> "click", selector |-> form_config.submit_button] >>

C5_Witness ==
    /\ gen_pc = "form"
    /\ Len(RequiredFields) = 1
    /\ Len(tests) = 4
    /\ Len(SelectSeq(tests, TaggedRequired)) = 1

-----------------------------------------------------------------------------
(* Properties of the web front end *)

HasRead(r) == wread[r] # <<>>

\* C7: for every POST to '/', the submitted URL is written to
\* webtest_url.txt before the script is invoked, and the URL the script
\* launched by that POST reads from the file is the URL submitted in that
\* same POST, in every interleaving of POSTs handled at the same time.
C7_ScriptReadsItsOwnUrl ==
    \A r \in Requests : HasRead(r) => wread[r][1] = wurl[r]

\* the response to request r is given in this step, with the report link
LinkGiven(r) == wpc[r] = "exited" /\ wpc'[r] = "responded" /\ wlink'[r]

\* test_report.html holds the report of the test run request r launched
\* for the URL submitted with r
ReportIsOf(r) ==
    /\ report_file # <<>>
    /\ report_file[1].by = r
    /\ report_file[1].url = Strip(wurl[r])

\* C12: when the response to a POST shows the 'View Report' link, the
\* test_report.html it points to was written by the test run that this
\* POST launched for the submitted URL; a run that writes no report (the
\* script fails to start, the URL file is empty or whitespace-only, or the
\* script dies before reporting) yields a response without a link rather
\* than a link to an earlier run's report.
C12_LinkPointsToOwnReport ==
    [][\A r \in Requests : LinkGiven(r) => ReportIsOf(r)]_vars

====
